---- MODULE Spec2Model ----
(***************************************************************************)
(* Model of core/optimizer.py: the optimizers (BaseOptimizer.step and the  *)
(* step rules) and the learning-rate schedulers built around them.         *)
(*                                                                         *)
(* Numbers are exact rationals [n, d] in lowest terms with d > 0, so that  *)
(* 0.5 * 0.5 or 1.0 + (-0.25) are computed, not assumed.  A tensor is a    *)
(* record [shape, data]: data is a sequence of numbers for a 1-d tensor    *)
(* and a sequence of rows for a 2-d tensor; ravel and reshape convert      *)
(* between that and the flat row-major vector as numpy does.               *)
(*                                                                         *)
(* A Python object is modelled with the attributes it holds: an attribute  *)
(* that was never assigned is absent, and reading it raises                *)
(* AttributeError, as in the interpreter.                                  *)
(***************************************************************************)
EXTENDS Integers, Sequences, FiniteSets, TLC

\* ------------------------------------------------------------------ bounds

MaxOptSteps == 2
MaxSchedCalls == 2
MaxLrWrites == 1

\* ------------------------------------------------------- exact arithmetic

Abs(x) == IF x < 0 THEN -x ELSE x

RECURSIVE Gcd(_, _)
Gcd(a, b) == IF b = 0 THEN a ELSE Gcd(b, a % b)

\* The number n/d in lowest terms, denominator positive.
Rat(n, d) ==
    LET g == Gcd(Abs(n), Abs(d))
        s == IF d < 0 THEN -1 ELSE 1
    IN  [n |-> (s * n) \div g, d |-> (s * d) \div g]

Num(k) == [n |-> k, d |-> 1]

RAdd(x, y) == Rat(x.n * y.d + y.n * x.d, x.d * y.d)
RNeg(x) == [n |-> -x.n, d |-> x.d]
RSub(x, y) == RAdd(x, RNeg(y))
RMul(x, y) == Rat(x.n * y.n, x.d * y.d)
RDiv(x, y) == Rat(x.n * y.d, x.d * y.n)
RLt(x, y) == x.n * y.d < y.n * x.d
RLe(x, y) == x.n * y.d <= y.n * x.d

RECURSIVE RPow(_, _)
RPow(x, k) == IF k = 0 THEN Num(1) ELSE RMul(x, RPow(x, k - 1))

\* np.sqrt of a number whose root is rational; the inputs are chosen so that no
\* other root is taken (there is no k to CHOOSE otherwise).
ISqrt(n) == CHOOSE k \in 0..n : k * k = n
Sqrt(x) == Rat(ISqrt(x.n), ISqrt(x.d))

\* ---------------------------------------------------------------- tensors

RECURSIVE Prod(_)
Prod(s) == IF s = << >> THEN 1 ELSE Head(s) * Prod(Tail(s))

RECURSIVE Concat(_)
Concat(ss) == IF ss = << >> THEN << >> ELSE Head(ss) \o Concat(Tail(ss))

\* np.ravel: the elements in row-major order.
Ravel(t) == IF Len(t.shape) = 1 THEN t.data ELSE Concat(t.data)

\* ndarray.reshape of a flat vector v to shape.
Reshape(v, shape) ==
    IF Len(shape) = 1
    THEN [shape |-> shape, data |-> v]
    ELSE [shape |-> shape,
          data |-> [r \in 1..shape[1] |->
                      SubSeq(v, (r - 1) * shape[2] + 1, r * shape[2])]]

\* Elementwise operations on flat vectors, scalar broadcast on the left.
VScale(c, v) == [i \in 1..Len(v) |-> RMul(c, v[i])]
VAdd(u, v) == [i \in 1..Len(v) |-> RAdd(u[i], v[i])]
VDiv(u, v) == [i \in 1..Len(v) |-> RDiv(u[i], v[i])]
VSquare(v) == [i \in 1..Len(v) |-> RMul(v[i], v[i])]
VSqrt(v) == [i \in 1..Len(v) |-> Sqrt(v[i])]
VPlus(v, c) == [i \in 1..Len(v) |-> RAdd(v[i], c)]

\* Elementwise operations on tensors of one shape.
TScale(c, a) ==
    IF Len(a.shape) = 1
    THEN [shape |-> a.shape, data |-> [i \in 1..Len(a.data) |-> RMul(c, a.data[i])]]
    ELSE [shape |-> a.shape,
          data |-> [r \in 1..Len(a.data) |->
                      [c2 \in 1..Len(a.data[r]) |-> RMul(c, a.data[r][c2])]]]

TAdd(a, b) ==
    IF Len(a.shape) = 1
    THEN [shape |-> a.shape,
          data |-> [i \in 1..Len(a.data) |-> RAdd(a.data[i], b.data[i])]]
    ELSE [shape |-> a.shape,
          data |-> [r \in 1..Len(a.data) |->
                      [c \in 1..Len(a.data[r]) |-> RAdd(a.data[r][c], b.data[r][c])]]]

TSub(a, b) ==
    IF Len(a.shape) = 1
    THEN [shape |-> a.shape,
          data |-> [i \in 1..Len(a.data) |-> RSub(a.data[i], b.data[i])]]
    ELSE [shape |-> a.shape,
          data |-> [r \in 1..Len(a.data) |->
                      [c \in 1..Len(a.data[r]) |-> RSub(a.data[r][c], b.data[r][c])]]]

\* ------------------------------------------------------- Python objects

NoAttrs == [k \in {} |-> 0]
HasAttr(self, k) == k \in DOMAIN self
SetAttr(self, k, v) == (k :> v) @@ self

\* A returned value or a raised exception, with the objects as the call left them.
NoValue == << >>

\* ------------------------------------------------------------- optimizers

\* self._acc = 0: a scalar until the first accumulation broadcasts it.
ScalarZero == [scalar |-> TRUE, v |-> <<Num(0)>>]
Vector(v) == [scalar |-> FALSE, v |-> v]
Broadcast(a, n) == IF a.scalar THEN [i \in 1..n |-> a.v[1]] ELSE a.v

\* The optimizer object.  The base sets lr and weight_decay; the other fields
\* are the attributes the subclasses add, and only the subclass that sets one
\* reads it.
BaseOptimizer_init(kind, lr, weight_decay) ==
    [kind |-> kind, lr |-> lr, weight_decay |-> weight_decay,
     momentum |-> Num(0), acc |-> ScalarZero,
     b1 |-> Num(0), b2 |-> Num(0), eps |-> Num(0), t |-> 0,
     m |-> ScalarZero, v |-> ScalarZero,
     decay |-> Num(0), ms |-> ScalarZero, mom |-> ScalarZero]

Adam_init(lr, beta1, beta2, eps, weight_decay) ==
    [BaseOptimizer_init("Adam", lr, weight_decay)
        EXCEPT !.b1 = beta1, !.b2 = beta2, !.eps = eps,
               !.t = 0, !.m = ScalarZero, !.v = ScalarZero]

RMSProp_init(lr, decay, momentum, eps, weight_decay) ==
    [BaseOptimizer_init("RMSProp", lr, weight_decay)
        EXCEPT !.decay = decay, !.momentum = momentum, !.eps = eps,
               !.ms = ScalarZero, !.mom = ScalarZero]

SGD_init(lr, weight_decay) == BaseOptimizer_init("SGD", lr, weight_decay)

Momentum_init(lr, momentum, weight_decay) ==
    [BaseOptimizer_init("Momentum", lr, weight_decay)
        EXCEPT !.momentum = momentum, !.acc = ScalarZero]

\* Each step rule returns the optimizer as it leaves it and the flat step.
BaseOptimizer_compute_step(self, grad) ==
    [raised |-> "NotImplementedError", self |-> self, step |-> NoValue]

SGD_compute_step(self, grad) ==
    [raised |-> "none", self |-> self, step |-> VScale(RNeg(self.lr), grad)]

\* Momentum._compute_step accumulating the gradients without the momentum factor.
Momentum_compute_step_factor_dropped(self, grad) ==
    LET n == Len(grad)
        acc == VAdd(Broadcast(self.acc, n), grad)
    IN  [raised |-> "none",
         self |-> [self EXCEPT !.acc = Vector(acc)],
         step |-> VScale(RNeg(self.lr), acc)]

Momentum_compute_step(self, grad) ==
    LET n == Len(grad)
        acc == VAdd(VScale(self.momentum, Broadcast(self.acc, n)), grad)
    IN  [raised |-> "none",
         self |-> [self EXCEPT !.acc = Vector(acc)],
         step |-> VScale(RNeg(self.lr), acc)]

\* Adam._compute_step keeping the bias-corrected rate lr_t in self.lr.
Adam_compute_step_lr_t_stored(self, grad) ==
    LET n == Len(grad)
        t == self.t + 1
        lr_t == RDiv(RMul(self.lr, Sqrt(RSub(Num(1), RPow(self.b2, t)))),
                     RSub(Num(1), RPow(self.b1, t)))
        m == VAdd(VScale(self.b1, Broadcast(self.m, n)), VScale(RSub(Num(1), self.b1), grad))
        v == VAdd(VScale(self.b2, Broadcast(self.v, n)),
                  VScale(RSub(Num(1), self.b2), VSquare(grad)))
    IN  [raised |-> "none",
         self |-> [self EXCEPT !.lr = lr_t, !.t = t, !.m = Vector(m), !.v = Vector(v)],
         step |-> VDiv(VScale(RNeg(lr_t), m), VPlus(VSqrt(v), self.eps))]

\* Adam._compute_step counting each call twice.
Adam_compute_step_t_counted_twice(self, grad) ==
    LET n == Len(grad)
        t == self.t + 2
        lr_t == RDiv(RMul(self.lr, Sqrt(RSub(Num(1), RPow(self.b2, t)))),
                     RSub(Num(1), RPow(self.b1, t)))
        m == VAdd(VScale(self.b1, Broadcast(self.m, n)), VScale(RSub(Num(1), self.b1), grad))
        v == VAdd(VScale(self.b2, Broadcast(self.v, n)),
                  VScale(RSub(Num(1), self.b2), VSquare(grad)))
    IN  [raised |-> "none",
         self |-> [self EXCEPT !.t = t, !.m = Vector(m), !.v = Vector(v)],
         step |-> VDiv(VScale(RNeg(lr_t), m), VPlus(VSqrt(v), self.eps))]

Adam_compute_step(self, grad) ==
    LET n == Len(grad)
        t == self.t + 1
        lr_t == RDiv(RMul(self.lr, Sqrt(RSub(Num(1), RPow(self.b2, t)))),
                     RSub(Num(1), RPow(self.b1, t)))
        m == VAdd(VScale(self.b1, Broadcast(self.m, n)),
                  VScale(RSub(Num(1), self.b1), grad))
        v == VAdd(VScale(self.b2, Broadcast(self.v, n)),
                  VScale(RSub(Num(1), self.b2), VSquare(grad)))
    IN  [raised |-> "none",
         self |-> [self EXCEPT !.t = t, !.m = Vector(m), !.v = Vector(v)],
         step |-> VDiv(VScale(RNeg(lr_t), m), VPlus(VSqrt(v), self.eps))]

RMSProp_compute_step(self, grad) ==
    LET n == Len(grad)
        ms == VAdd(VScale(self.decay, Broadcast(self.ms, n)),
                   VScale(RSub(Num(1), self.decay), VSquare(grad)))
        mom == VAdd(VScale(self.momentum, Broadcast(self.mom, n)),
                    VDiv(VScale(self.lr, grad), VSqrt(VPlus(ms, self.eps))))
    IN  [raised |-> "none",
         self |-> [self EXCEPT !.ms = Vector(ms), !.mom = Vector(mom)],
         step |-> [i \in 1..n |-> RNeg(mom[i])]]

compute_step(self, grad) ==
    CASE self.kind = "SGD" -> SGD_compute_step(self, grad)
      [] self.kind = "Momentum" -> Momentum_compute_step(self, grad)
      [] self.kind = "Adam" -> Adam_compute_step(self, grad)
      [] self.kind = "RMSProp" -> RMSProp_compute_step(self, grad)
      [] OTHER -> BaseOptimizer_compute_step(self, grad)

\* get_params_and_grads yielding one gradient more than there are parameters.
get_params_and_grads_extra_grad(nt) ==
    [i \in 1..(Len(nt.params) + 1) |->
        IF i <= Len(nt.params)
        THEN [param |-> nt.params[i], grad |-> nt.grads[i]]
        ELSE [param |-> nt.params[i - 1], grad |-> nt.grads[i - 1]]]

\* net.get_params_and_grads(): the (param, grad) pairs in layer order.
get_params_and_grads(nt) ==
    [i \in 1..Len(nt.params) |-> [param |-> nt.params[i], grad |-> nt.grads[i]]]

\* The loop with the offset p never advanced: every parameter is given the
\* first block of flatten_step.
RECURSIVE ApplyBlocks_offset_not_advanced(_, _, _, _, _, _)
ApplyBlocks_offset_not_advanced(i, p, flatten_step, weight_decay, ps, step) ==
    IF i > Len(ps)
    THEN [params |-> ps, step |-> step, p |-> p]
    ELSE LET param == ps[i]
             block == Prod(param.shape)
             _step == TSub(Reshape(SubSeq(flatten_step, p + 1, p + block), param.shape),
                           TScale(weight_decay, param))
         IN  ApplyBlocks_offset_not_advanced(i + 1, p, flatten_step, weight_decay,
                         [ps EXCEPT ![i] = TAdd(param, _step)], Append(step, _step))

\* The loop of BaseOptimizer.step storing each updated parameter flat.
RECURSIVE ApplyBlocks_param_left_flat(_, _, _, _, _, _)
ApplyBlocks_param_left_flat(i, p, flatten_step, weight_decay, ps, step) ==
    IF i > Len(ps)
    THEN [params |-> ps, step |-> step, p |-> p]
    ELSE LET param == ps[i]
             block == Prod(param.shape)
             _step == TSub(Reshape(SubSeq(flatten_step, p + 1, p + block), param.shape),
                           TScale(weight_decay, param))
         IN  ApplyBlocks_param_left_flat(i + 1, p + block, flatten_step, weight_decay,
                         [ps EXCEPT ![i] = Reshape(Ravel(TAdd(param, _step)), <<block>>)],
                         Append(step, _step))

\* The loop of BaseOptimizer.step from its i-th pair on: p is the offset into
\* flatten_step, ps the parameters as updated so far, step the updates so far.
RECURSIVE ApplyBlocks(_, _, _, _, _, _)
ApplyBlocks(i, p, flatten_step, weight_decay, ps, step) ==
    IF i > Len(ps)
    THEN [params |-> ps, step |-> step, p |-> p]
    ELSE LET param == ps[i]
             block == Prod(param.shape)
             _step == TSub(Reshape(SubSeq(flatten_step, p + 1, p + block), param.shape),
                           TScale(weight_decay, param))
         IN  ApplyBlocks(i + 1, p + block, flatten_step, weight_decay,
                         [ps EXCEPT ![i] = TAdd(param, _step)], Append(step, _step))

BaseOptimizer_step(self, nt) ==
    LET pairs == get_params_and_grads(nt)
        flatten_grads == Concat([i \in 1..Len(pairs) |-> Ravel(pairs[i].grad)])
        r == compute_step(self, flatten_grads)
    IN  IF r.raised # "none"
        THEN [raised |-> r.raised, self |-> r.self, params |-> nt.params, step |-> NoValue,
              flatten_grads |-> flatten_grads, flatten_step |-> NoValue, p |-> 0]
        ELSE LET a == ApplyBlocks(1, 0, r.step, self.weight_decay, nt.params, << >>)
             IN  [raised |-> "none", self |-> r.self, params |-> a.params, step |-> a.step,
                  flatten_grads |-> flatten_grads, flatten_step |-> r.step, p |-> a.p]

\* ------------------------------------------------------------- schedulers

\* A scheduler object is [cls, attrs]: attrs maps the attributes assigned so far
\* to their values.  There is one optimizer object; a reference to it is the
\* string "optimizer", and None is the string "None".

\* Every operation returns [raised, self, lr, ret]: the exception raised or
\* "none", the scheduler's attributes and the optimizer's lr as it leaves them,
\* and the returned value wrapped in a sequence (NoValue when it raised).
Raise(e, self, lr) == [raised |-> e, self |-> self, lr |-> lr, ret |-> NoValue]
Return(v, self, lr) == [raised |-> "none", self |-> self, lr |-> lr, ret |-> v]

\* Python numbers that keep their type: int(m) and isinstance(x, int) look at it.
PyInt(k) == [ty |-> "int", v |-> Num(k)]
PyFloat(x) == [ty |-> "float", v |-> x]
IsInstanceInt(x) == x.ty = "int"

\* int(m): truncation toward zero.
IntOf(m) ==
    LET q == Abs(m.v.n) \div m.v.d
    IN  PyInt(IF m.v.n < 0 THEN -q ELSE q)

BaseScheduler_get_current_lr(self, lr) ==
    IF ~HasAttr(self, "_optim") THEN Raise("AttributeError", self, lr)
    ELSE IF self["_optim"] = "None" THEN Raise("AttributeError", self, lr)
    ELSE Return(<<lr>>, self, lr)

\* def __init__(self): args are the positional arguments passed after self.
BaseScheduler_init(self, args, lr) ==
    IF Len(args) # 0
    THEN Raise("TypeError", self, lr)
    ELSE LET s1 == SetAttr(self, "_optim", "None")
             g == BaseScheduler_get_current_lr(s1, lr)
         IN  IF g.raised # "none"
             THEN Raise(g.raised, s1, lr)
             ELSE Return(NoValue,
                         SetAttr(SetAttr(s1, "_initial_lr", g.ret[1]), "_t", 0), lr)

StepLR_init(self, optimizer, step_size, gamma, lr) ==
    LET b == BaseScheduler_init(self, <<optimizer>>, lr)
    IN  IF b.raised # "none" THEN b
        ELSE IF ~(step_size >= 1) THEN Raise("AssertionError", b.self, lr)
        ELSE Return(NoValue,
                    SetAttr(SetAttr(b.self, "_step_size", step_size), "_gamma", gamma), lr)

StepLR_compute_lr(self, lr) ==
    LET decay == IF self["_t"] % self["_step_size"] = 0 THEN self["_gamma"] ELSE Num(1)
        g == BaseScheduler_get_current_lr(self, lr)
    IN  IF g.raised # "none" THEN g ELSE Return(<<RMul(decay, g.ret[1])>>, self, lr)

StrictlyIncreasing(ms) == \A i \in 1..(Len(ms) - 1) : RLt(ms[i].v, ms[i + 1].v)

MultiStepLR_init(self, optimizer, milestones, gamma, lr) ==
    LET b == BaseScheduler_init(self, <<optimizer>>, lr)
        ms == [i \in 1..Len(milestones) |-> IntOf(milestones[i])]
    IN  IF b.raised # "none" THEN b
        ELSE IF ~(StrictlyIncreasing(ms) /\ \A i \in 1..Len(ms) : IsInstanceInt(ms[i]))
        THEN Raise("AssertionError", b.self, lr)
        ELSE Return(NoValue,
                    SetAttr(SetAttr(b.self, "_milestones", ms), "_gamma", gamma), lr)

MultiStepLR_compute_lr(self, lr) ==
    LET ms == self["_milestones"]
        decay == IF \E i \in 1..Len(ms) : ms[i].v = Num(self["_t"])
                 THEN self["_gamma"] ELSE Num(1)
        g == BaseScheduler_get_current_lr(self, lr)
    IN  IF g.raised # "none" THEN g ELSE Return(<<RMul(decay, g.ret[1])>>, self, lr)

ExponentialLR_init(self, optimizer, decay_steps, decay_rate, lr) ==
    LET b == BaseScheduler_init(self, <<optimizer>>, lr)
    IN  IF b.raised # "none" THEN b
        ELSE Return(NoValue,
                    SetAttr(SetAttr(b.self, "_decay_steps", decay_steps),
                            "_decay_rate", decay_rate), lr)

\* x ** (num / den) for den > 0, for the x whose den-th root is rational.
PowFrac(x, num, den) ==
    LET root == CHOOSE q \in {Rat(a, b) : a \in 0..x.n, b \in 1..x.d} : RPow(q, den) = x
    IN  RPow(root, num)

ExponentialLR_compute_lr(self, lr) ==
    IF self["_t"] <= self["_decay_steps"]
    THEN Return(<<RMul(self["_initial_lr"],
                       PowFrac(self["_decay_rate"], self["_t"], self["_decay_steps"]))>>,
                self, lr)
    ELSE BaseScheduler_get_current_lr(self, lr)

LinearLR_init(self, optimizer, decay_steps, final_lr, start_step, lr) ==
    LET b == BaseScheduler_init(self, <<optimizer>>, lr)
    IN  IF b.raised # "none" THEN b
        ELSE IF ~RLt(final_lr, b.self["_initial_lr"]) THEN Raise("AssertionError", b.self, lr)
        ELSE IF ~(decay_steps > 0) THEN Raise("AssertionError", b.self, lr)
        ELSE LET s1 == SetAttr(b.self, "_lr_delta",
                               RDiv(RSub(final_lr, b.self["_initial_lr"]), Num(decay_steps)))
                 s2 == SetAttr(s1, "_final_lr", final_lr)
                 s3 == SetAttr(s2, "_decay_steps", decay_steps)
             IN  Return(NoValue, SetAttr(s3, "_start_step", start_step), lr)

LinearLR_compute_lr(self, lr) ==
    LET g == BaseScheduler_get_current_lr(self, lr)
    IN  IF self["_t"] > self["_start_step"]
           /\ self["_t"] <= self["_start_step"] + self["_decay_steps"]
        THEN IF g.raised # "none" THEN g
             ELSE Return(<<RAdd(g.ret[1], self["_lr_delta"])>>, self, lr)
        ELSE g

BaseScheduler_compute_lr(self, lr) == Raise("NotImplementedError", self, lr)

\* The attributes each policy's _compute_lr reads besides _optim.
ReadBy(cls) ==
    CASE cls = "StepLR" -> {"_t", "_step_size", "_gamma"}
      [] cls = "MultiStepLR" -> {"_t", "_milestones", "_gamma"}
      [] cls = "ExponentialLR" -> {"_t", "_decay_steps", "_decay_rate", "_initial_lr"}
      [] cls = "LinearLR" -> {"_t", "_start_step", "_decay_steps", "_lr_delta"}
      [] OTHER -> {}

compute_lr(cls, self, lr) ==
    IF ~(ReadBy(cls) \subseteq DOMAIN self) THEN Raise("AttributeError", self, lr) ELSE
    CASE cls = "StepLR" -> StepLR_compute_lr(self, lr)
      [] cls = "MultiStepLR" -> MultiStepLR_compute_lr(self, lr)
      [] cls = "ExponentialLR" -> ExponentialLR_compute_lr(self, lr)
      [] cls = "LinearLR" -> LinearLR_compute_lr(self, lr)
      [] OTHER -> BaseScheduler_compute_lr(self, lr)

BaseScheduler_step(cls, self, lr) ==
    IF ~HasAttr(self, "_t")
    THEN Raise("AttributeError", self, lr)
    ELSE LET s1 == SetAttr(self, "_t", self["_t"] + 1)
             c == compute_lr(cls, s1, lr)
         IN  IF c.raised # "none" THEN Raise(c.raised, s1, lr)
             ELSE IF ~HasAttr(s1, "_optim") \/ s1["_optim"] = "None"
             THEN Raise("AttributeError", s1, lr)
             ELSE BaseScheduler_get_current_lr(s1, c.ret[1])

\* ------------------------------------------------------------------ state

VARIABLES
    optim,      \* the optimizer object
    params,     \* the net's parameter tensors, in layer order
    grads,      \* the gradients the net held at the last Optimizer.step
    sched,      \* the scheduler object: [cls, attrs], cls "none" before it is built
    last,       \* the last call: its name, what it raised, what it returned, and
                \* for Optimizer.step the lengths of flatten_grads and
                \* flatten_step and the offset p its loop ended with
    ctor,       \* the last scheduler constructor call, as its caller made it
    optSteps,   \* calls of Optimizer.step so far
    schedCalls, \* calls of step() on the scheduler so far
    lrWrites    \* assignments to optimizer.lr made by the training loop so far

vars == <<optim, params, grads, sched, last, ctor, optSteps, schedCalls, lrWrites>>

\* ----------------------------------------------------------------- inputs

LrValues == {Rat(1, 2)}
WeightDecays == {Num(0), Rat(1, 2)}
Momenta == {Num(0), Rat(1, 2)}
\* Adam and RMSProp with beta2 = 0 and decay = 0, eps = 0: the second moment is
\* then the squared gradient, whose root is exact.
Beta1s == {Rat(1, 2)}
Beta2s == {Num(0)}
AdamEps == {Num(1)}
Decays == {Num(0)}
RMSPropMomenta == {Rat(1, 2)}
RMSPropEps == {Num(0)}
GradScales == {-1, 1}

\* A dense layer's weight and bias, and a single square weight: nets with at
\* least one parameter, every parameter of one or two dimensions.
NetShapes == { << <<1, 2>>, <<2>> >>, << <<2, 2>> >> }

\* Parameters start with distinct entries 1, 2, ... in layer and row-major order.
RECURSIVE InitParams(_, _)
InitParams(shapes, p) ==
    IF shapes = << >> THEN << >>
    ELSE LET n == Prod(Head(shapes))
         IN  <<Reshape([i \in 1..n |-> Num(p + i)], Head(shapes))>>
             \o InitParams(Tail(shapes), p + n)

\* The gradients of one backward pass, a tensor of each parameter's shape: over
\* all the entries, in layer and row-major order, c, 2c, 3c, ... (or all c).
RECURSIVE SizeBefore(_, _)
SizeBefore(shapes, i) ==
    IF i = 1 THEN 0 ELSE SizeBefore(shapes, i - 1) + Prod(shapes[i - 1])

Numbered(shapes, c, ramp) ==
    LET Entry(k) == Num(IF ramp THEN c * k ELSE c)
    IN  [i \in 1..Len(shapes) |->
            IF Len(shapes[i]) = 1
            THEN [shape |-> shapes[i],
                  data |-> [e \in 1..shapes[i][1] |-> Entry(SizeBefore(shapes, i) + e)]]
            ELSE [shape |-> shapes[i],
                  data |-> [r \in 1..shapes[i][1] |->
                              [e \in 1..shapes[i][2] |->
                                  Entry(SizeBefore(shapes, i)
                                        + (r - 1) * shapes[i][2] + e)]]]]

GradInputs(ps) ==
    {Numbered([i \in 1..Len(ps) |-> ps[i].shape], c, TRUE) : c \in GradScales}

StepSizes == {0, 2}
Gammas == {Rat(1, 2)}
MilestoneInputs ==
    { <<PyInt(1), PyInt(2)>>, <<PyInt(2), PyInt(1)>>, <<PyInt(2), PyInt(2)>>,
      <<PyFloat(Rat(3, 2)), PyFloat(Rat(5, 2))>> }
DecayStepInputs == {1, 2}
DecayRates == {Rat(1, 4)}
FinalLrs == {Num(0), Rat(1, 2), Num(1)}
StartSteps == {0, 1}
ExternalLrs == {Rat(1, 4)}

NoFlat == [grads |-> 0, step |-> 0, p |-> 0]
NoCall == [op |-> "none", raised |-> "none", step |-> NoValue, lr |-> NoValue,
           flat |-> NoFlat]
NoCtor(lr) == [cls |-> "none", args |-> NoAttrs, raised |-> "none", lr0 |-> lr]

Init ==
    /\ optim \in {SGD_init(lr, wd) : lr \in LrValues, wd \in WeightDecays}
           \cup {Momentum_init(lr, m, wd) : lr \in LrValues, m \in Momenta, wd \in WeightDecays}
           \cup {Adam_init(lr, b1, b2, eps, Num(0)) :
                    lr \in LrValues, b1 \in Beta1s, b2 \in Beta2s, eps \in AdamEps}
           \cup {RMSProp_init(lr, d, m, eps, Num(0)) :
                    lr \in LrValues, d \in Decays, m \in RMSPropMomenta, eps \in RMSPropEps}
           \cup {BaseOptimizer_init("BaseOptimizer", lr, Num(0)) : lr \in LrValues}
    /\ params \in {InitParams(sh, 0) : sh \in NetShapes}
    /\ grads = << >>
    /\ sched = [cls |-> "none", attrs |-> NoAttrs]
    /\ last = NoCall
    /\ ctor = NoCtor(optim.lr)
    /\ optSteps = 0
    /\ schedCalls = 0
    /\ lrWrites = 0

\* ---------------------------------------------------------------- actions

\* optimizer.step(net), with the gradients backpropagation left in the net.
OptimizerStep ==
    /\ optSteps < MaxOptSteps
    /\ \E g \in GradInputs(params) :
          LET r == BaseOptimizer_step(optim, [params |-> params, grads |-> g])
          IN  /\ optim' = r.self
              /\ params' = r.params
              /\ grads' = g
              /\ last' = [op |-> "Optimizer.step", raised |-> r.raised,
                          step |-> r.step, lr |-> NoValue,
                          flat |-> [grads |-> Len(r.flatten_grads),
                                    step |-> Len(r.flatten_step), p |-> r.p]]
    /\ optSteps' = optSteps + 1
    /\ UNCHANGED <<sched, ctor, schedCalls, lrWrites>>

\* cls(optimizer, ...): __init__ runs on a fresh instance and leaves it as r says.
Construct(cls, args, r) ==
    /\ sched.cls = "none"
    /\ sched' = [cls |-> cls, attrs |-> r.self]
    /\ optim' = [optim EXCEPT !.lr = r.lr]
    /\ last' = [op |-> "__init__", raised |-> r.raised, step |-> NoValue, lr |-> NoValue,
                flat |-> NoFlat]
    /\ ctor' = [cls |-> cls, args |-> args, raised |-> r.raised, lr0 |-> optim.lr]
    /\ UNCHANGED <<params, grads, optSteps, schedCalls, lrWrites>>

NewStepLR ==
    \E step_size \in StepSizes, gamma \in Gammas :
        Construct("StepLR", ("step_size" :> step_size) @@ ("gamma" :> gamma),
                  StepLR_init(NoAttrs, "optimizer", step_size, gamma, optim.lr))

NewMultiStepLR ==
    \E milestones \in MilestoneInputs, gamma \in Gammas :
        Construct("MultiStepLR", ("milestones" :> milestones) @@ ("gamma" :> gamma),
                  MultiStepLR_init(NoAttrs, "optimizer", milestones, gamma, optim.lr))

NewExponentialLR ==
    \E decay_steps \in DecayStepInputs, decay_rate \in DecayRates :
        Construct("ExponentialLR",
                  ("decay_steps" :> decay_steps) @@ ("decay_rate" :> decay_rate),
                  ExponentialLR_init(NoAttrs, "optimizer", decay_steps, decay_rate, optim.lr))

NewLinearLR ==
    \E decay_steps \in DecayStepInputs, final_lr \in FinalLrs, start_step \in StartSteps :
        Construct("LinearLR",
                  ("decay_steps" :> decay_steps) @@ ("final_lr" :> final_lr)
                      @@ ("start_step" :> start_step),
                  LinearLR_init(NoAttrs, "optimizer", decay_steps, final_lr, start_step,
                                optim.lr))

NewBaseScheduler ==
    Construct("BaseScheduler", NoAttrs, BaseScheduler_init(NoAttrs, << >>, optim.lr))

\* scheduler.step() on the instance __init__ ran on.  When __init__ raised, the
\* instance holds only the attributes assigned before the exception, and step()
\* raises at the first one it misses.
SchedulerStep ==
    /\ sched.cls # "none"
    /\ schedCalls < MaxSchedCalls
    /\ LET r == BaseScheduler_step(sched.cls, sched.attrs, optim.lr)
       IN  /\ sched' = [sched EXCEPT !.attrs = r.self]
           /\ optim' = [optim EXCEPT !.lr = r.lr]
           /\ last' = [op |-> "step", raised |-> r.raised, step |-> NoValue, lr |-> r.ret,
                       flat |-> NoFlat]
    /\ schedCalls' = schedCalls + 1
    /\ UNCHANGED <<params, grads, optSteps, ctor, lrWrites>>

\* scheduler.get_current_lr() on the same instance.
GetCurrentLr ==
    /\ sched.cls # "none"
    /\ LET r == BaseScheduler_get_current_lr(sched.attrs, optim.lr)
       IN  /\ sched' = [sched EXCEPT !.attrs = r.self]
           /\ optim' = [optim EXCEPT !.lr = r.lr]
           /\ last' = [op |-> "get_current_lr", raised |-> r.raised,
                       step |-> NoValue, lr |-> r.ret, flat |-> NoFlat]
    /\ UNCHANGED <<params, grads, optSteps, schedCalls, ctor, lrWrites>>

\* optimizer.lr = x, written by the training loop: lr is a public attribute.
\* Only a write that changes lr is counted.
ExternalWriteLr ==
    /\ lrWrites < MaxLrWrites
    /\ \E x \in ExternalLrs : x # optim.lr /\ optim' = [optim EXCEPT !.lr = x]
    /\ lrWrites' = lrWrites + 1
    /\ UNCHANGED <<params, grads, sched, last, ctor, optSteps, schedCalls>>

Next ==
    \/ OptimizerStep
    \/ NewStepLR
    \/ NewMultiStepLR
    \/ NewExponentialLR
    \/ NewLinearLR
    \/ NewBaseScheduler
    \/ SchedulerStep
    \/ GetCurrentLr
    \/ ExternalWriteLr

Spec == Init /\ [][Next]_vars

\* ----------------------------------------------------------------- claims

Concrete == {"StepLR", "MultiStepLR", "ExponentialLR", "LinearLR"}

\* The constructor call last made had policy parameters the specification allows.
ValidPolicy ==
    CASE ctor.cls = "StepLR" -> ctor.args["step_size"] >= 1
      [] ctor.cls = "MultiStepLR" ->
            /\ \A i \in 1..Len(ctor.args["milestones"]) :
                   IsInstanceInt(ctor.args["milestones"][i])
            /\ StrictlyIncreasing(ctor.args["milestones"])
      [] ctor.cls = "ExponentialLR" -> ctor.args["decay_steps"] > 0
      [] ctor.cls = "LinearLR" ->
            ctor.args["decay_steps"] > 0 /\ RLt(ctor.args["final_lr"], ctor.lr0)
      [] OTHER -> FALSE

\* C1: constructing StepLR, MultiStepLR, ExponentialLR or LinearLR around an
\* optimizer with valid policy parameters succeeds, and the scheduler then
\* refers to that optimizer, has initialLr equal to the optimizer's lr at
\* construction, and has t = 0.
C1_ConstructionSucceeds ==
    (ctor.cls \in Concrete /\ ValidPolicy /\ schedCalls = 0) =>
        /\ ctor.raised = "none"
        /\ HasAttr(sched.attrs, "_optim") /\ sched.attrs["_optim"] = "optimizer"
        /\ HasAttr(sched.attrs, "_initial_lr") /\ sched.attrs["_initial_lr"] = ctor.lr0
        /\ HasAttr(sched.attrs, "_t") /\ sched.attrs["_t"] = 0

\* C2: every call of step() on a concrete scheduler increments t by exactly 1,
\* writes computeLr(), evaluated with the incremented t, into the optimizer's lr
\* and returns the optimizer's lr after the call; so after n calls t = n.
C2_StepIncrementsAndCommits ==
    [][(schedCalls' = schedCalls + 1 /\ ctor.cls \in Concrete /\ ValidPolicy) =>
          /\ last'.raised = "none"
          /\ HasAttr(sched.attrs, "_t") /\ HasAttr(sched'.attrs, "_t")
          /\ sched'.attrs["_t"] = sched.attrs["_t"] + 1
          /\ sched'.attrs["_t"] = schedCalls'
          /\ <<optim'.lr>> = compute_lr(sched.cls, sched'.attrs, optim.lr).ret
          /\ last'.lr = <<optim'.lr>>]_vars

\* C3: for StepLR with stepSize >= 1, after n calls of step() the optimizer's lr
\* is initialLr * gamma^floor(n / stepSize): the k-th call multiplies lr by gamma
\* exactly when k mod stepSize = 0.
C3_StepLRClosedForm ==
    (ctor.cls = "StepLR" /\ ValidPolicy /\ lrWrites = 0) =>
        optim.lr = RMul(ctor.lr0,
                        RPow(ctor.args["gamma"], schedCalls \div ctor.args["step_size"]))

\* C4: for MultiStepLR with strictly increasing integer milestones, after n calls
\* of step() the optimizer's lr is initialLr * gamma^(number of milestones <= n).
C4_MultiStepLRClosedForm ==
    (ctor.cls = "MultiStepLR" /\ ValidPolicy /\ lrWrites = 0) =>
        LET ms == ctor.args["milestones"]
            passed == Cardinality({i \in 1..Len(ms) : RLe(ms[i].v, Num(schedCalls))})
        IN  optim.lr = RMul(ctor.lr0, RPow(ctor.args["gamma"], passed))

\* C5: for LinearLR with decaySteps > 0 and finalLr < initialLr, the k-th call of
\* step() adds delta = (finalLr - initialLr) / decaySteps exactly when
\* startStep < k <= startStep + decaySteps, so after n calls lr is initialLr plus
\* delta times the number of such k <= n, and finalLr from call
\* startStep + decaySteps on.
C5_LinearLRClosedForm ==
    (ctor.cls = "LinearLR" /\ ValidPolicy /\ lrWrites = 0) =>
        LET ds == ctor.args["decay_steps"]
            st == ctor.args["start_step"]
            delta == RDiv(RSub(ctor.args["final_lr"], ctor.lr0), Num(ds))
            inWindow == Cardinality({k \in 1..schedCalls : st < k /\ k <= st + ds})
        IN  /\ optim.lr = RAdd(ctor.lr0, RMul(Num(inWindow), delta))
            /\ schedCalls >= st + ds => optim.lr = ctor.args["final_lr"]

\* C6: for ExponentialLR, after n <= decaySteps calls of step() the optimizer's
\* lr is initialLr * decayRate^(n / decaySteps), and after more calls it stays at
\* initialLr * decayRate, the value set by call decaySteps.
C6_ExponentialLRClosedForm ==
    (ctor.cls = "ExponentialLR" /\ ValidPolicy /\ lrWrites = 0) =>
        LET ds == ctor.args["decay_steps"]
            n == IF schedCalls <= ds THEN schedCalls ELSE ds
        IN  optim.lr = RMul(ctor.lr0, PowFrac(ctor.args["decay_rate"], n, ds))

\* C7: constructing MultiStepLR with milestones that are not strictly increasing
\* fails at construction with the validation error: no scheduler is produced, the
\* milestones are not reordered, and the optimizer's lr is left unchanged.
C7_NonIncreasingMilestonesRejected ==
    (ctor.cls = "MultiStepLR" /\ ~StrictlyIncreasing(ctor.args["milestones"])) =>
        /\ ctor.raised = "AssertionError"
        /\ ~HasAttr(sched.attrs, "_milestones")
        /\ optim.lr = ctor.lr0

\* C8: constructing MultiStepLR with a non-integer milestone fails at
\* construction with the validation error, even when the values are strictly
\* increasing: the milestone is not truncated to an integer and accepted.
C8_NonIntegerMilestonesRejected ==
    (ctor.cls = "MultiStepLR"
        /\ \E i \in 1..Len(ctor.args["milestones"]) :
               ~IsInstanceInt(ctor.args["milestones"][i])) =>
        /\ ctor.raised = "AssertionError"
        /\ ~HasAttr(sched.attrs, "_milestones")

\* C9: constructing LinearLR with final_lr >= the optimizer's lr at construction,
\* equality included, fails at construction with the validation error: no
\* scheduler is produced and the optimizer's lr is left unchanged.
C9_LinearLRFinalNotBelowInitialRejected ==
    (ctor.cls = "LinearLR" /\ RLe(ctor.lr0, ctor.args["final_lr"])) =>
        /\ ctor.raised = "AssertionError"
        /\ ~HasAttr(sched.attrs, "_lr_delta")
        /\ optim.lr = ctor.lr0

\* The entry of tensor t at flat position k (1-based, row-major), read by index.
At(t, k) ==
    IF Len(t.shape) = 1 THEN t.data[k]
    ELSE t.data[((k - 1) \div t.shape[2]) + 1][((k - 1) % t.shape[2]) + 1]

NumEl(t) == IF Len(t.shape) = 1 THEN t.shape[1] ELSE t.shape[1] * t.shape[2]

\* The number of entries of the tensors before the i-th.
RECURSIVE Before(_, _)
Before(ts, i) == IF i = 1 THEN 0 ELSE Before(ts, i - 1) + NumEl(ts[i - 1])

\* C10: Optimizer.step(source) applies to every parameter, in source order, the
\* update "its block of the flattened step vector, in the parameter's shape,
\* minus weight_decay times the parameter's value before the update", adds it to
\* the parameter in place and returns the list of exactly those updates; for SGD
\* with weight_decay = 0, newParam = oldParam - lr * grad in every entry.
C10_OptimizerStepAppliesBlocks ==
    [][(optSteps' = optSteps + 1 /\ last'.raised = "none") =>
          LET \* the entry of the flattened step vector that falls on entry e of
              \* the i-th parameter
              S(i, e) ==
                  LET k == Before(params, i) + e
                  IN  CASE optim.kind = "SGD" ->
                             RNeg(RMul(optim.lr, At(grads'[i], e)))
                        [] optim.kind = "Momentum" ->
                             RNeg(RMul(optim.lr, optim'.acc.v[k]))
                        [] optim.kind = "RMSProp" ->
                             RNeg(optim'.mom.v[k])
                        [] optim.kind = "Adam" ->
                             LET lr_t ==
                                   RDiv(RMul(optim.lr,
                                             Sqrt(RSub(Num(1), RPow(optim.b2, optim'.t)))),
                                        RSub(Num(1), RPow(optim.b1, optim'.t)))
                             IN  RDiv(RNeg(RMul(lr_t, optim'.m.v[k])),
                                      RAdd(Sqrt(optim'.v.v[k]), optim.eps))
          IN  /\ Len(last'.step) = Len(params)
              /\ Len(params') = Len(params)
              /\ \A i \in 1..Len(params) :
                    /\ params'[i].shape = params[i].shape
                    /\ last'.step[i].shape = params[i].shape
                    /\ \A e \in 1..NumEl(params[i]) :
                          /\ At(last'.step[i], e) =
                                RSub(S(i, e),
                                     RMul(optim.weight_decay, At(params[i], e)))
                          /\ At(params'[i], e) =
                                RAdd(At(params[i], e), At(last'.step[i], e))
                          /\ (optim.kind = "SGD" /\ optim.weight_decay = Num(0)) =>
                                At(params'[i], e) =
                                    RSub(At(params[i], e),
                                         RMul(optim.lr, At(grads'[i], e)))]_vars

\* An SGD optimizer without weight decay has stepped a net of two parameters
\* twice, and both were updated.
C10_Witness ==
    /\ last.op = "Optimizer.step" /\ last.raised = "none"
    /\ optim.kind = "SGD" /\ optim.weight_decay = Num(0)
    /\ optSteps = 2
    /\ Len(params) = 2 /\ Len(last.step) = 2
    /\ \A i \in 1..2 : params[i] # InitParams(<<params[1].shape, params[2].shape>>, 0)[i]

\* C11: in every Optimizer.step call, of every variant, the flattened step
\* vector is as long as the flattened gradient vector, and the blocks sliced from
\* it cover it exactly: the offset after the last parameter is its length, which
\* is the number of entries of all the parameters.
C11_BlocksCoverStepVector ==
    (last.op = "Optimizer.step" /\ last.raised = "none") =>
        /\ last.flat.step = last.flat.grads
        /\ last.flat.p = last.flat.step
        /\ last.flat.p = Before(params, Len(params)) + NumEl(params[Len(params)])
        /\ \A i \in 1..Len(params) : NumEl(last.step[i]) = NumEl(params[i])

\* Adam and RMSProp have each stepped twice, the second time with their
\* accumulators already vectors.
C11_Witness ==
    /\ last.op = "Optimizer.step" /\ last.raised = "none"
    /\ optim.kind \in {"Adam", "RMSProp"}
    /\ optSteps = 2
    /\ last.flat.step = 4

\* C12: a Momentum optimizer with momentum = 0 is observationally SGD: run side
\* by side from equal parameters on the same gradients, with the same lr and
\* weight_decay, every call returns the updates an SGD call returns and leaves
\* the parameters an SGD call leaves.
C12_ZeroMomentumIsSGD ==
    [][(optSteps' = optSteps + 1 /\ optim.kind = "Momentum"
            /\ optim.momentum = Num(0)) =>
          LET sgd == BaseOptimizer_step(SGD_init(optim.lr, optim.weight_decay),
                                        [params |-> params, grads |-> grads'])
          IN  /\ last'.raised = sgd.raised
              /\ last'.step = sgd.step
              /\ params' = sgd.params]_vars

\* A Momentum optimizer with momentum = 0 has stepped twice, the second time
\* with its accumulator holding the first gradient.
C12_Witness ==
    /\ last.op = "Optimizer.step" /\ last.raised = "none"
    /\ optim.kind = "Momentum" /\ optim.momentum = Num(0)
    /\ optSteps = 2
    /\ ~optim.acc.scalar

\* A get_current_lr() call is the step taken.
IsGetCurrentLr ==
    /\ last'.op = "get_current_lr"
    /\ optSteps' = optSteps /\ schedCalls' = schedCalls /\ lrWrites' = lrWrites
    /\ ctor' = ctor

\* C13: getCurrentLr() on a scheduler is a pure read-through: it returns the
\* wrapped optimizer's lr as it is at the moment of the call, also after lr was
\* assigned from outside, and changes neither lr, t, initialLr nor a parameter.
C13_GetCurrentLrReadsThrough ==
    [][(IsGetCurrentLr /\ ctor.cls \in Concrete /\ ValidPolicy) =>
          /\ last'.raised = "none"
          /\ last'.lr = <<optim.lr>>
          /\ optim' = optim
          /\ sched' = sched
          /\ params' = params]_vars

\* C14: the optimizer's lr has a single write path. In any interleaving of
\* Optimizer.step(), Scheduler.step() and getCurrentLr() calls lr changes only
\* as the commit inside Scheduler.step(), to the value computeLr() returned;
\* Optimizer.step() of every variant leaves lr and weight_decay as they were, and
\* computeLr() of every policy hands the optimizer's lr back unwritten.
C14_SingleWritePathForLr ==
    [][lrWrites' = lrWrites =>
          /\ optim'.lr # optim.lr =>
                /\ schedCalls' = schedCalls + 1
                /\ <<optim'.lr>> = compute_lr(sched.cls, sched'.attrs, optim.lr).ret
          /\ optSteps' = optSteps + 1 =>
                /\ optim'.lr = optim.lr
                /\ optim'.weight_decay = optim.weight_decay
          /\ schedCalls' = schedCalls + 1 =>
                compute_lr(sched.cls, sched'.attrs, optim.lr).lr = optim.lr
          /\ optim'.weight_decay = optim.weight_decay]_vars

\* Optimizer.step() of Adam, which computes a rate lr_t of its own, has run twice
\* between calls of Scheduler.step() and get_current_lr(), and lr is the one the
\* optimizer was built with.
C14_Witness ==
    /\ optim.kind = "Adam" /\ optSteps = 2
    /\ schedCalls >= 1
    /\ last.op = "get_current_lr"
    /\ lrWrites = 0
    /\ optim.lr = ctor.lr0

\* C15: step() on the abstract base, with no concrete variant selected, fails
\* with NotImplementedError, for BaseOptimizer.step(net) and for step() on a base
\* scheduler alike, before any parameter is changed and without changing lr.
C15_AbstractStepNotImplemented ==
    [][/\ (optSteps' = optSteps + 1 /\ optim.kind = "BaseOptimizer") =>
             /\ last'.raised = "NotImplementedError"
             /\ params' = params
             /\ optim'.lr = optim.lr
       /\ (schedCalls' = schedCalls + 1 /\ sched.cls = "BaseScheduler") =>
             /\ last'.raised = "NotImplementedError"
             /\ params' = params
             /\ optim'.lr = optim.lr]_vars

\* The layout of a tensor's data is the one its shape says.
WellShaped(t) ==
    /\ Len(t.shape) \in {1, 2}
    /\ Len(t.data) = t.shape[1]
    /\ Len(t.shape) = 2 => \A r \in 1..t.shape[1] : Len(t.data[r]) = t.shape[2]

\* C16: for SGD, Momentum, RMSProp and Adam, a call of step() leaves every
\* parameter with the shape and the number of entries it had and the parameter
\* sequence with its length and order; so after n >= 1 calls they are what they
\* were before the first. Only entry values change.
C16_ShapesPreserved ==
    [][(optSteps' = optSteps + 1
            /\ optim.kind \in {"SGD", "Momentum", "RMSProp", "Adam"}) =>
          /\ Len(params') = Len(params)
          /\ \A i \in 1..Len(params) :
                /\ params'[i].shape = params[i].shape
                /\ NumEl(params'[i]) = NumEl(params[i])
                /\ WellShaped(params'[i])]_vars

\* An optimizer has stepped a net holding a 2-d parameter twice and its
\* entries have changed.
C16_Witness ==
    /\ last.op = "Optimizer.step" /\ last.raised = "none"
    /\ optSteps = 2
    /\ \E i \in 1..Len(params) :
          /\ Len(params[i].shape) = 2
          /\ params[i] # InitParams([j \in 1..Len(params) |-> params[j].shape], 0)[i]

\* C17: LinearLR is additive on the current lr, not on initialLr. Once lr was
\* assigned a value x from outside, a step() with startStep < t + 1 <=
\* startStep + decaySteps sets lr to the current lr plus delta, delta being
\* (finalLr - initialLr) / decaySteps as fixed at construction, and a step()
\* outside that window leaves lr as it is: lr is never derived again from
\* initialLr nor clamped to finalLr, so the perturbation stays in every later lr.
C17_LinearLRAdditiveOnCurrentLr ==
    [][(schedCalls' = schedCalls + 1 /\ ctor.cls = "LinearLR" /\ ValidPolicy
            /\ lrWrites >= 1) =>
          LET ds == ctor.args["decay_steps"]
              st == ctor.args["start_step"]
              delta == RDiv(RSub(ctor.args["final_lr"], ctor.lr0), Num(ds))
              t == schedCalls + 1
          IN  /\ last'.raised = "none"
              /\ optim'.lr = IF st < t /\ t <= st + ds
                             THEN RAdd(optim.lr, delta)
                             ELSE optim.lr]_vars

\* The k-th entry of an accumulator, which is a scalar until the first call.
Prev(a, k) == IF a.scalar THEN a.v[1] ELSE a.v[k]

\* The accumulator state of the optimizer.
Accumulators(o) == <<o.t, o.m, o.v, o.acc, o.ms, o.mom>>

\* C18: each Optimizer.step() applies the step rule exactly once and the
\* accumulators are a first-order recurrence over the calls, never reset: Adam's
\* t starts at 0 and is the number of step() calls made so far; after the k-th
\* call every entry of the Momentum, RMSProp and Adam accumulators is given by
\* its value after call k-1 and the k-th gradient; and no other call, Scheduler.step()
\* included, modifies them.
C18_AccumulatorsFirstOrder ==
    /\ (optim.t = 0 /\ optSteps = 0)
    /\ [][/\ optSteps' = optSteps => Accumulators(optim') = Accumulators(optim)
          /\ (optSteps' = optSteps + 1 /\ last'.raised = "none") =>
                /\ optim.kind = "Adam" => (optim'.t = optim.t + 1 /\ optim'.t = optSteps')
                /\ \A i \in 1..Len(params) : \A e \in 1..NumEl(params[i]) :
                      LET k == Before(params, i) + e
                          g == At(grads'[i], e)
                          one == Num(1)
                      IN  CASE optim.kind = "Momentum" ->
                                 optim'.acc.v[k] =
                                     RAdd(RMul(optim.momentum, Prev(optim.acc, k)), g)
                            [] optim.kind = "Adam" ->
                                 /\ optim'.m.v[k] =
                                       RAdd(RMul(optim.b1, Prev(optim.m, k)),
                                            RMul(RSub(one, optim.b1), g))
                                 /\ optim'.v.v[k] =
                                       RAdd(RMul(optim.b2, Prev(optim.v, k)),
                                            RMul(RSub(one, optim.b2), RMul(g, g)))
                            [] optim.kind = "RMSProp" ->
                                 /\ optim'.ms.v[k] =
                                       RAdd(RMul(optim.decay, Prev(optim.ms, k)),
                                            RMul(RSub(one, optim.decay), RMul(g, g)))
                                 /\ optim'.mom.v[k] =
                                       RAdd(RMul(optim.momentum, Prev(optim.mom, k)),
                                            RDiv(RMul(optim.lr, g),
                                                 Sqrt(RAdd(optim'.ms.v[k], optim.eps))))
                            [] OTHER -> Accumulators(optim') = Accumulators(optim)]_vars

\* Adam has stepped twice, its second call starting from vector accumulators,
\* and a Scheduler.step() call came after.
C18_Witness ==
    /\ optim.kind = "Adam" /\ optim.t = 2 /\ optSteps = 2
    /\ ~optim.m.scalar /\ ~optim.v.scalar
    /\ last.op = "step" /\ schedCalls >= 1

\* The bounds of C19 on lr in a state: under LinearLR the scheduler's finalLr and
\* initialLr enclose it, under StepLR and MultiStepLR with 0 < gamma <= 1 and
\* initialLr > 0 it is positive.
LrWithinBounds ==
    /\ (ctor.cls = "LinearLR" /\ ValidPolicy /\ lrWrites = 0) =>
          /\ HasAttr(sched.attrs, "_final_lr") /\ HasAttr(sched.attrs, "_initial_lr")
          /\ RLe(sched.attrs["_final_lr"], optim.lr)
          /\ RLe(optim.lr, sched.attrs["_initial_lr"])
    /\ (ctor.cls \in {"StepLR", "MultiStepLR"} /\ ValidPolicy /\ lrWrites = 0) =>
          /\ HasAttr(sched.attrs, "_gamma") /\ HasAttr(sched.attrs, "_initial_lr")
          /\ (RLt(Num(0), sched.attrs["_gamma"]) /\ RLe(sched.attrs["_gamma"], Num(1))
                /\ RLt(Num(0), sched.attrs["_initial_lr"])) =>
                RLt(Num(0), optim.lr)

Holds(name, v) == HasAttr(sched.attrs, name) /\ sched.attrs[name] = v

\* initialLr and the policy parameters are the ones of the constructor call.
ConstructionTimeValues ==
    /\ Holds("_initial_lr", ctor.lr0)
    /\ CASE ctor.cls = "StepLR" ->
              /\ Holds("_step_size", ctor.args["step_size"])
              /\ Holds("_gamma", ctor.args["gamma"])
         [] ctor.cls = "MultiStepLR" ->
              /\ Holds("_milestones", ctor.args["milestones"])
              /\ Holds("_gamma", ctor.args["gamma"])
         [] ctor.cls = "ExponentialLR" ->
              /\ Holds("_decay_steps", ctor.args["decay_steps"])
              /\ Holds("_decay_rate", ctor.args["decay_rate"])
         [] ctor.cls = "LinearLR" ->
              /\ Holds("_decay_steps", ctor.args["decay_steps"])
              /\ Holds("_final_lr", ctor.args["final_lr"])
              /\ Holds("_start_step", ctor.args["start_step"])
              /\ Holds("_lr_delta", RDiv(RSub(ctor.args["final_lr"], ctor.lr0),
                                         Num(ctor.args["decay_steps"])))

====
